---- MODULE Spec2Model ----
(***************************************************************************)
(* Model of the per-day dispatch simulator of solarna_app.py:              *)
(* solar_production and simulate_day, with the battery parameters of the   *)
(* sidebar.  Python floats are modelled as exact rationals <<num, den>>    *)
(* (den > 0, lowest terms), so "equal" means exactly equal.  The day has   *)
(* NumIntervals quarter-hour intervals instead of 96; an hour keeps its    *)
(* four intervals.  Python lists are 0-based, sequences here are 1-based:  *)
(* the Python soc_history[j] is soc_history[j + 1] here, and likewise for  *)
(* prices and solar_energy_15min.                                          *)
(***************************************************************************)
EXTENDS Integers, Sequences, FiniteSets, TLC

\* ------------------------------------------------------------------ bounds
\* Intervals of the simulated day (96 in the source, range(96)).
NumIntervals == 5

\* Intervals per hour: sun_15min.extend([s] * 4), i // 4.
IntervalsPerHour == 4

\* Hours of sunshine data needed to cover the day (24 in the source).
NumHours == (NumIntervals + IntervalsPerHour - 1) \div IntervalsPerHour

Intervals == 0 .. (NumIntervals - 1)

\* ------------------------------------------------------- exact arithmetic
Abs(x) == IF x < 0 THEN -x ELSE x

RECURSIVE Gcd(_, _)
Gcd(a, b) == IF b = 0 THEN a ELSE Gcd(b, a % b)

\* The rational n/d in lowest terms with a positive denominator (d # 0).
Rat(n, d) ==
    LET s == IF d < 0 THEN -1 ELSE 1
        g == Gcd(Abs(n), Abs(d))
    IN  <<(s * n) \div g, (s * d) \div g>>

Zero == <<0, 1>>
Quarter == <<1, 4>>

RAdd(x, y) == Rat(x[1] * y[2] + y[1] * x[2], x[2] * y[2])
RSub(x, y) == Rat(x[1] * y[2] - y[1] * x[2], x[2] * y[2])
RMul(x, y) == Rat(x[1] * y[1], x[2] * y[2])
RDiv(x, y) == Rat(x[1] * y[2], x[2] * y[1])
RLt(x, y) == x[1] * y[2] < y[1] * x[2]
RLe(x, y) == x[1] * y[2] <= y[1] * x[2]
RGt(x, y) == RLt(y, x)
RGe(x, y) == RLe(y, x)
RMin(x, y) == IF RLe(x, y) THEN x ELSE y
RMin3(x, y, z) == RMin(RMin(x, y), z)

RECURSIVE RSum(_)
RSum(s) == IF s = <<>> THEN Zero ELSE RAdd(Head(s), RSum(Tail(s)))

\* ------------------------------------------------------------------ inputs
\* Prices in EUR/MWh: a negative one, zero, and two distinct positive ones.
PriceValues == {<<-1, 1>>, <<0, 1>>, <<1, 1>>, <<2, 1>>}

\* Seconds of sunshine within an hour: none, or the whole hour.
SunshineValues == {<<0, 1>>, <<3600, 1>>}

\* Sidebar parameters (st.number_input): capacity, power, the two
\* efficiencies, installed solar power, earliest selling hour.
Configs ==
    { [cap |-> <<3, 8>>, pow |-> <<1, 1>>, eta_ch |-> <<1, 1>>,
       eta_dis |-> <<1, 1>>, solar |-> <<1, 1>>, msh |-> 0],
      [cap |-> <<3, 16>>, pow |-> <<1, 2>>, eta_ch |-> <<1, 2>>,
       eta_dis |-> <<1, 2>>, solar |-> <<1, 1>>, msh |-> 0],
      [cap |-> <<1, 4>>, pow |-> <<1, 2>>, eta_ch |-> <<1, 1>>,
       eta_dis |-> <<19, 20>>, solar |-> <<1, 1>>, msh |-> NumHours - 1],
      [cap |-> <<1, 1>>, pow |-> <<1, 1>>, eta_ch |-> <<19, 20>>,
       eta_dis |-> <<19, 20>>, solar |-> <<1, 2>>, msh |-> 0] }

VARIABLES
    CAPACITY_MWH, POWER_MW, ETA_CH, ETA_DIS, SOLAR_POWER_MW, MIN_SELL_HOUR,
    prices, sunshine,
    pc, i,
    solar_energy_15min, solar_power_15min, total_produced,
    soc, soc_history, actions, total_charged, charge_intervals,
    direct_sale_revenue, direct_sale_energy,
    battery_sale_profit, battery_sale_price, battery_sale_intervals,
    battery_sale_energy, remaining, sell_candidates,
    result

params == <<CAPACITY_MWH, POWER_MW, ETA_CH, ETA_DIS, SOLAR_POWER_MW,
            MIN_SELL_HOUR, prices, sunshine>>
forward == <<soc, total_charged, charge_intervals, direct_sale_revenue,
             direct_sale_energy>>
production == <<solar_energy_15min, solar_power_15min, total_produced>>
selling == <<battery_sale_profit, battery_sale_price, battery_sale_intervals,
             battery_sale_energy, remaining, sell_candidates>>
vars == <<params, pc, i, production, forward, soc_history, actions, selling,
          result>>

\* ------------------------------------------------------ solar production
\* Mutant: no "if sunshine_sec <= 0: return 0.0".
solar_productionUnguarded(sunshine_sec) ==
    RMul(RMul(SOLAR_POWER_MW, RDiv(sunshine_sec, <<3600, 1>>)), Quarter)

\* solar_production(sunshine_sec)
solar_production(sunshine_sec) ==
    IF RLe(sunshine_sec, Zero)
    THEN Zero
    ELSE LET sun_factor == RDiv(sunshine_sec, <<3600, 1>>)
             power_in_interval == RMul(SOLAR_POWER_MW, sun_factor)
         IN  RMul(power_in_interval, Quarter)

\* sun_15min: every hourly value four times; sun_15min[:96].
sun_15min ==
    [n \in 1 .. (IntervalsPerHour * Len(sunshine)) |->
        sunshine[((n - 1) \div IntervalsPerHour) + 1]]

SunFirstDay == SubSeq(sun_15min, 1, NumIntervals)

\* max_charge_per_interval = POWER_MW * 0.25
max_charge_per_interval == RMul(POWER_MW, Quarter)

\* max_discharge_per_interval = POWER_MW * 0.25
max_discharge_per_interval == RMul(POWER_MW, Quarter)

\* ----------------------------------------------------------- forward pass
\* Mutant: the free space of the battery is not taken into account.
ChargeAmountNoSpace(solar, space) ==
    RMin(RMul(solar, ETA_CH), max_charge_per_interval)

\* Mutant: the charging loss is forgotten.
ChargeAmountNoLoss(solar, space) ==
    RMin3(solar, max_charge_per_interval, space)

\* charge = min(solar * ETA_CH, max_charge_per_interval, space)
ChargeAmount(solar, space) ==
    RMin3(RMul(solar, ETA_CH), max_charge_per_interval, space)

\* Mutant: the stored energy is subtracted, not the solar energy it took.
RemainingSolarNoLoss(solar, charge) == RSub(solar, charge)

\* remaining_solar = solar - (charge / ETA_CH)
RemainingSolar(solar, charge) == RSub(solar, RDiv(charge, ETA_CH))

\* Mutant: the sale is booked as a cost.
SaleRevenueAsCost(energy, price) == RSub(Zero, RMul(energy, price))

\* energy * price, the amount added to a revenue accumulator
SaleRevenue(energy, price) == RMul(energy, price)

Punjenje(n, charge, solar, price, s) ==
    [interval |-> n, tip |-> "punjenje", energija |-> charge,
     solar |-> solar, cijena |-> price, soc |-> s]

DirektnaProdaja(n, energy, price, s) ==
    [interval |-> n, tip |-> "direktna prodaja", energija |-> energy,
     cijena |-> price, soc |-> s]

Praznjenje(n, amount, price, s) ==
    [interval |-> n, tip |-> "praznjenje", energija |-> amount,
     cijena |-> price, soc |-> s]

\* ------------------------------------------------------------- discharge
\* Mutant: range(last_charge, 96).
FirstCandidateAtCharge(last_charge) == last_charge

\* range(last_charge + 1, 96): the first interval looked at
FirstCandidate(last_charge) == last_charge + 1

\* Mutant: the earliest selling hour is ignored.
IsSellCandidateAnyHour(n) == RGt(prices[n + 1], Zero)

\* if i // 4 >= MIN_SELL_HOUR and prices[i] > 0
IsSellCandidate(n) ==
    /\ n \div IntervalsPerHour >= MIN_SELL_HOUR
    /\ RGt(prices[n + 1], Zero)

\* sell_candidates as appended by the loop over range(n, 96)
RECURSIVE CandidatesFrom(_)
CandidatesFrom(n) ==
    IF n >= NumIntervals
    THEN <<>>
    ELSE (IF IsSellCandidate(n) THEN <<<<n, prices[n + 1]>>>> ELSE <<>>)
         \o CandidatesFrom(n + 1)

\* Mutant: an unstable sort, equal prices come out latest first.
RECURSIVE InsertDescTiesLast(_, _)
InsertDescTiesLast(s, x) ==
    IF s = <<>>
    THEN <<x>>
    ELSE IF RGt(Head(s)[2], x[2])
         THEN <<Head(s)>> \o InsertDescTiesLast(Tail(s), x)
         ELSE <<x>> \o s

\* Where list.sort(key = price, reverse = True) puts x among the already
\* sorted elements s: after every element whose price is >= its own (the
\* sort is stable, also with reverse = True).
RECURSIVE InsertDesc(_, _)
InsertDesc(s, x) ==
    IF s = <<>>
    THEN <<x>>
    ELSE IF RGe(Head(s)[2], x[2])
         THEN <<Head(s)>> \o InsertDesc(Tail(s), x)
         ELSE <<x>> \o s

RECURSIVE SortByPriceDesc(_)
SortByPriceDesc(s) ==
    IF s = <<>>
    THEN <<>>
    ELSE InsertDesc(SortByPriceDesc(SubSeq(s, 1, Len(s) - 1)), s[Len(s)])

\* Mutant: the walk also stops when less than a full interval's worth is left.
WalkStopsOnPartial(k, rem) ==
    k < Len(sell_candidates) /\ RGe(rem, max_discharge_per_interval)

\* The walk goes on: a k-th candidate is left and not "remaining <= 0: break"
WalkContinues(k, rem) == k < Len(sell_candidates) /\ RGt(rem, Zero)

\* Mutant: the power limit is not applied to the discharge.
SellAmountNoLimit(rem) == rem

\* sell_amount = min(remaining, max_discharge_per_interval)
SellAmount(rem) == RMin(rem, max_discharge_per_interval)

\* sell_energy = sell_amount * ETA_DIS
SellEnergy(sell_amount) == RMul(sell_amount, ETA_DIS)

\* Mutant: range(interval + 1, 96), the last entry is never overwritten.
OverwriteFromShort(hist, interval, rem) ==
    [n \in 1 .. Len(hist) |->
        IF n - 1 >= interval + 1 /\ n - 1 < NumIntervals
        THEN rem ELSE hist[n]]

\* for j in range(interval + 1, 97): if j < len(soc_history): ...
OverwriteFrom(hist, interval, rem) ==
    [n \in 1 .. Len(hist) |->
        IF n - 1 >= interval + 1 /\ n - 1 < NumIntervals + 1
        THEN rem ELSE hist[n]]

\* np.mean([p for i, p in sell_candidates if i in battery_sale_intervals])
RECURSIVE UsedPrices(_, _)
UsedPrices(cands, used) ==
    IF cands = <<>>
    THEN <<>>
    ELSE (IF \E n \in 1 .. Len(used) : used[n] = Head(cands)[1]
          THEN <<Head(cands)[2]>>
          ELSE <<>>) \o UsedPrices(Tail(cands), used)

Mean(s) == RDiv(RSum(s), <<Len(s), 1>>)

\* ------------------------------------------------------------------ Init
NotReturned == [returned |-> FALSE]

Init ==
    /\ \E c \in Configs :
        /\ CAPACITY_MWH = c.cap
        /\ POWER_MW = c.pow
        /\ ETA_CH = c.eta_ch
        /\ ETA_DIS = c.eta_dis
        /\ SOLAR_POWER_MW = c.solar
        /\ MIN_SELL_HOUR = c.msh
    /\ prices \in [1 .. NumIntervals -> PriceValues]
    /\ sunshine \in [1 .. NumHours -> SunshineValues]
    /\ pc = "produce"
    /\ i = 0
    /\ solar_energy_15min = <<>>
    /\ solar_power_15min = <<>>
    /\ total_produced = Zero
    /\ soc = Zero
    /\ soc_history = <<Zero>>
    /\ actions = <<>>
    /\ total_charged = Zero
    /\ charge_intervals = <<>>
    /\ direct_sale_revenue = Zero
    /\ direct_sale_energy = Zero
    /\ battery_sale_profit = Zero
    /\ battery_sale_price = Zero
    /\ battery_sale_intervals = <<>>
    /\ battery_sale_energy = Zero
    /\ remaining = Zero
    /\ sell_candidates = <<>>
    /\ result = NotReturned

\* --------------------------------------------------------------- actions
\* Lines 217-230: expand the sunshine and compute the production.
Produce ==
    /\ pc = "produce"
    /\ LET energy == [n \in 1 .. NumIntervals |->
                        solar_production(SunFirstDay[n])]
       IN  /\ solar_energy_15min' = energy
           /\ solar_power_15min' =
                [n \in 1 .. NumIntervals |->
                    IF RGt(energy[n], Zero)
                    THEN RDiv(energy[n], Quarter) ELSE Zero]
           /\ total_produced' = RSum(energy)
    /\ pc' = "charge"
    /\ i' = 0
    /\ UNCHANGED <<params, forward, soc_history, actions, selling, result>>

\* Lines 247-303: one iteration of "for i in range(96)".
ChargeStep ==
    /\ pc = "charge"
    /\ i < NumIntervals
    /\ LET solar == solar_energy_15min[i + 1]
           price == prices[i + 1]
           space == RSub(CAPACITY_MWH, soc)
           charge == ChargeAmount(solar, space)
           remaining_solar == RemainingSolar(solar, charge)
       IN  IF RGt(solar, Zero) /\ RLt(soc, CAPACITY_MWH)
           THEN IF RGt(charge, Zero)
                THEN /\ soc' = RAdd(soc, charge)
                     /\ total_charged' = RAdd(total_charged, charge)
                     /\ charge_intervals' = Append(charge_intervals, i)
                     /\ IF RGt(remaining_solar, Zero)
                        THEN /\ direct_sale_revenue' =
                                  RAdd(direct_sale_revenue,
                                       SaleRevenue(remaining_solar, price))
                             /\ direct_sale_energy' =
                                  RAdd(direct_sale_energy, remaining_solar)
                             /\ actions' = actions \o
                                  <<Punjenje(i, charge, solar, price, soc'),
                                    DirektnaProdaja(i, remaining_solar, price,
                                                    soc')>>
                        ELSE /\ actions' = Append(actions,
                                  Punjenje(i, charge, solar, price, soc'))
                             /\ UNCHANGED <<direct_sale_revenue,
                                            direct_sale_energy>>
                ELSE /\ direct_sale_revenue' =
                          RAdd(direct_sale_revenue, SaleRevenue(solar, price))
                     /\ direct_sale_energy' = RAdd(direct_sale_energy, solar)
                     /\ actions' = Append(actions,
                          DirektnaProdaja(i, solar, price, soc))
                     /\ UNCHANGED <<soc, total_charged, charge_intervals>>
           ELSE IF RGt(solar, Zero)
                THEN /\ direct_sale_revenue' =
                          RAdd(direct_sale_revenue, SaleRevenue(solar, price))
                     /\ direct_sale_energy' = RAdd(direct_sale_energy, solar)
                     /\ actions' = Append(actions,
                          DirektnaProdaja(i, solar, price, soc))
                     /\ UNCHANGED <<soc, total_charged, charge_intervals>>
                ELSE UNCHANGED <<forward, actions>>
    /\ soc_history' = Append(soc_history, soc')
    /\ i' = i + 1
    /\ UNCHANGED <<params, pc, production, selling, result>>

\* Lines 306-320: the forward loop is over; collect and sort the candidates.
PrepareSale ==
    /\ pc = "charge"
    /\ i = NumIntervals
    /\ battery_sale_profit' = Zero
    /\ battery_sale_price' = Zero
    /\ battery_sale_intervals' = <<>>
    /\ battery_sale_energy' = Zero
    /\ remaining' = soc
    /\ IF charge_intervals # <<>> /\ RGt(soc, Zero)
       THEN LET last_charge == charge_intervals[Len(charge_intervals)]
            IN  /\ sell_candidates' =
                     SortByPriceDesc(
                         CandidatesFrom(FirstCandidate(last_charge)))
                /\ pc' = "discharge"
       ELSE /\ sell_candidates' = <<>>
            /\ pc' = "aggregate"
    /\ i' = 0
    /\ UNCHANGED <<params, production, forward, soc_history, actions, result>>

\* Lines 322-344: one iteration of "for interval, price in sell_candidates";
\* i counts the candidates already visited.
DischargeStep ==
    /\ pc = "discharge"
    /\ WalkContinues(i, remaining)
    /\ LET interval == sell_candidates[i + 1][1]
           price == sell_candidates[i + 1][2]
           sell_amount == SellAmount(remaining)
           sell_energy == SellEnergy(sell_amount)
       IN  IF RGt(sell_amount, Zero)
           THEN /\ battery_sale_profit' =
                     RAdd(battery_sale_profit, SaleRevenue(sell_energy, price))
                /\ battery_sale_energy' =
                     RAdd(battery_sale_energy, sell_energy)
                /\ remaining' = RSub(remaining, sell_amount)
                /\ battery_sale_intervals' =
                     Append(battery_sale_intervals, interval)
                /\ actions' = Append(actions,
                     Praznjenje(interval, sell_amount, price, remaining'))
                /\ soc_history' = OverwriteFrom(soc_history, interval,
                                                remaining')
           ELSE UNCHANGED <<battery_sale_profit, battery_sale_energy,
                            remaining, battery_sale_intervals, actions,
                            soc_history>>
    /\ i' = i + 1
    /\ UNCHANGED <<params, pc, production, forward, battery_sale_price,
                   sell_candidates, result>>

\* Lines 322-324, 346-347: the walk ends (candidates exhausted, or break on
\* remaining <= 0) and the mean price of the used candidates is taken.
EndDischarge ==
    /\ pc = "discharge"
    /\ ~WalkContinues(i, remaining)
    /\ battery_sale_price' =
         IF battery_sale_intervals # <<>>
         THEN Mean(UsedPrices(sell_candidates, battery_sale_intervals))
         ELSE battery_sale_price
    /\ pc' = "aggregate"
    /\ UNCHANGED <<params, i, production, forward, soc_history, actions,
                   battery_sale_profit, battery_sale_intervals,
                   battery_sale_energy, remaining, sell_candidates, result>>

\* Lines 350-370: the totals and the returned dictionary.
Return ==
    /\ pc = "aggregate"
    /\ result' =
         [returned |-> TRUE,
          total_produced |-> total_produced,
          total_delivered |-> RAdd(direct_sale_energy, battery_sale_energy),
          direct_sale_energy |-> direct_sale_energy,
          direct_sale_revenue |-> direct_sale_revenue,
          battery_charged |-> total_charged,
          battery_sold |-> battery_sale_energy,
          battery_profit |-> battery_sale_profit,
          total_revenue |-> RAdd(direct_sale_revenue, battery_sale_profit),
          battery_sale_price |-> battery_sale_price,
          battery_sale_intervals |-> battery_sale_intervals,
          charge_intervals |-> charge_intervals,
          actions |-> actions,
          soc_history |-> soc_history,
          solar_power |-> solar_power_15min,
          prices |-> prices,
          final_soc |-> remaining]
    /\ pc' = "done"
    /\ UNCHANGED <<params, i, production, forward, soc_history, actions,
                   selling>>

Next ==
    \/ Produce
    \/ ChargeStep
    \/ PrepareSale
    \/ DischargeStep
    \/ EndDischarge
    \/ Return

Spec == Init /\ [][Next]_vars

\* The same call with sunshine values that may also be negative (the
\* parser takes any float), for the first configuration.
AnySunshineValues == SunshineValues \cup {<<-60, 1>>}

InitAnySun ==
    /\ \E c \in {x \in Configs : x.cap = <<3, 8>>} :
        /\ CAPACITY_MWH = c.cap
        /\ POWER_MW = c.pow
        /\ ETA_CH = c.eta_ch
        /\ ETA_DIS = c.eta_dis
        /\ SOLAR_POWER_MW = c.solar
        /\ MIN_SELL_HOUR = c.msh
    /\ prices \in [1 .. NumIntervals -> PriceValues]
    /\ sunshine \in [1 .. NumHours -> AnySunshineValues]
    /\ pc = "produce"
    /\ i = 0
    /\ solar_energy_15min = <<>>
    /\ solar_power_15min = <<>>
    /\ total_produced = Zero
    /\ soc = Zero
    /\ soc_history = <<Zero>>
    /\ actions = <<>>
    /\ total_charged = Zero
    /\ charge_intervals = <<>>
    /\ direct_sale_revenue = Zero
    /\ direct_sale_energy = Zero
    /\ battery_sale_profit = Zero
    /\ battery_sale_price = Zero
    /\ battery_sale_intervals = <<>>
    /\ battery_sale_energy = Zero
    /\ remaining = Zero
    /\ sell_candidates = <<>>
    /\ result = NotReturned

SpecAnySun == InitAnySun /\ [][Next]_vars

\* ================================================================ claims
\* Helpers of the claims: they read the recorded action list.
Charge == "punjenje"
DirectSale == "direktna prodaja"
Discharge == "praznjenje"

\* Positions in acts of the actions of kind tip at interval n.
ActionsAt(acts, tip, n) ==
    {k \in 1 .. Len(acts) : acts[k].tip = tip /\ acts[k].interval = n}

\* Sum of the energies of the actions of kind tip at intervals <= n.
RECURSIVE EnergyUpTo(_, _, _)
EnergyUpTo(acts, tip, n) ==
    IF acts = <<>>
    THEN Zero
    ELSE RAdd(IF Head(acts).tip = tip /\ Head(acts).interval <= n
              THEN Head(acts).energija ELSE Zero,
              EnergyUpTo(Tail(acts), tip, n))

\* Energy of the actions of kind tip at interval n (0 if none).
EnergyAt(acts, tip, n) ==
    RSub(EnergyUpTo(acts, tip, n), EnergyUpTo(acts, tip, n - 1))

Returned == result.returned

HasDischarge == \E k \in 1 .. Len(actions) : actions[k].tip = Discharge

\* C1: every entry of the returned SoC trace (one per interval plus the
\* start of the day), after both passes, is >= 0 and <= CAPACITY_MWH.
C1_CapacityInvariant ==
    Returned =>
        /\ Len(result.soc_history) = NumIntervals + 1
        /\ \A n \in 1 .. Len(result.soc_history) :
            /\ RGe(result.soc_history[n], Zero)
            /\ RLe(result.soc_history[n], CAPACITY_MWH)

\* C1 witness: a returned trace of a battery that was filled to capacity by
\* several charges and then discharged.
C1_Witness ==
    /\ Returned
    /\ Len(charge_intervals) >= 2
    /\ soc = CAPACITY_MWH
    /\ \E n \in 1 .. Len(result.soc_history) :
        result.soc_history[n] = CAPACITY_MWH
    /\ Len(result.battery_sale_intervals) >= 2

\* C2: at every interval with solar energy > 0, Charge energy / ETA_CH plus
\* DirectSale energy equals the solar energy of the interval; and over the
\* day battery_charged / ETA_CH + direct_sale_energy equals total_produced.
C2_EnergyConservation ==
    Returned =>
        /\ \A n \in Intervals :
            RGt(solar_energy_15min[n + 1], Zero) =>
                RAdd(RDiv(EnergyAt(result.actions, Charge, n), ETA_CH),
                     EnergyAt(result.actions, DirectSale, n))
                    = solar_energy_15min[n + 1]
        /\ RAdd(RDiv(result.battery_charged, ETA_CH),
                result.direct_sale_energy) = result.total_produced

\* C2 witness: a lossy charge that is limited by the power, with the rest of
\* the interval's solar energy sold directly.
C2_Witness ==
    /\ Returned
    /\ RLt(ETA_CH, <<1, 1>>)
    /\ \E n \in Intervals :
        /\ ActionsAt(result.actions, Charge, n) # {}
        /\ ActionsAt(result.actions, DirectSale, n) # {}

\* C3: every Charge and every Discharge action has energy > 0 and at most
\* POWER_MW * 0.25, and no interval has two Charge or two Discharge actions.
C3_PowerLimit ==
    Returned =>
        /\ \A k \in 1 .. Len(result.actions) :
            result.actions[k].tip \in {Charge, Discharge} =>
                /\ RGt(result.actions[k].energija, Zero)
                /\ RLe(result.actions[k].energija, RMul(POWER_MW, Quarter))
        /\ \A n \in Intervals :
            /\ Cardinality(ActionsAt(result.actions, Charge, n)) <= 1
            /\ Cardinality(ActionsAt(result.actions, Discharge, n)) <= 1

\* C3 witness: the battery held more than POWER_MW * 0.25 and was discharged
\* in two intervals, the first at the power limit.
C3_Witness ==
    /\ Returned
    /\ RGt(soc, RMul(POWER_MW, Quarter))
    /\ Len(result.battery_sale_intervals) = 2
    /\ \E k \in 1 .. Len(result.actions) :
        /\ result.actions[k].tip = Discharge
        /\ result.actions[k].energija = RMul(POWER_MW, Quarter)

\* C4: every interval of battery_sale_intervals (every Discharge action) is
\* strictly greater than every interval of charge_intervals (every Charge
\* action).
C4_DischargeAfterLastCharge ==
    Returned =>
        /\ \A a \in 1 .. Len(result.battery_sale_intervals) :
            \A b \in 1 .. Len(result.charge_intervals) :
                result.battery_sale_intervals[a] > result.charge_intervals[b]
        /\ \A k, m \in 1 .. Len(result.actions) :
            result.actions[k].tip = Discharge /\ result.actions[m].tip = Charge
                => result.actions[k].interval > result.actions[m].interval

\* C4 witness: the last charging interval has a positive price and an allowed
\* hour, and the battery was discharged later.
C4_Witness ==
    /\ Returned
    /\ result.battery_sale_intervals # <<>>
    /\ LET last == result.charge_intervals[Len(result.charge_intervals)]
       IN  /\ RGt(prices[last + 1], Zero)
           /\ last \div IntervalsPerHour >= MIN_SELL_HOUR

\* C5: every Discharge action is at an interval j with j div 4 >=
\* MIN_SELL_HOUR; and when the battery was charged and no interval after the
\* last charge has such an hour, there is no Discharge action and final_soc
\* is the SoC at the end of the charging pass.
C5_DischargeHourFloor ==
    Returned =>
        /\ \A k \in 1 .. Len(result.actions) :
            result.actions[k].tip = Discharge =>
                result.actions[k].interval \div IntervalsPerHour
                    >= MIN_SELL_HOUR
        /\ \A a \in 1 .. Len(result.battery_sale_intervals) :
            result.battery_sale_intervals[a] \div IntervalsPerHour
                >= MIN_SELL_HOUR
        /\ (/\ result.charge_intervals # <<>>
            /\ ~\E j \in Intervals :
                 /\ j > result.charge_intervals[Len(result.charge_intervals)]
                 /\ j \div IntervalsPerHour >= MIN_SELL_HOUR)
           => /\ \A k \in 1 .. Len(result.actions) :
                   result.actions[k].tip # Discharge
              /\ result.final_soc = soc

\* C5 witness: a discharge under an earliest selling hour > 0 that kept a
\* positive-price interval after the last charge from being used.
C5_Witness ==
    /\ Returned
    /\ MIN_SELL_HOUR > 0
    /\ result.battery_sale_intervals # <<>>
    /\ \E j \in Intervals :
        /\ j > result.charge_intervals[Len(result.charge_intervals)]
        /\ j \div IntervalsPerHour < MIN_SELL_HOUR
        /\ RGt(prices[j + 1], Zero)

AllPricesNonNegative == \A n \in 1 .. NumIntervals : RGe(prices[n], Zero)

\* C6: whenever all input prices are >= 0, direct_sale_revenue and
\* battery_profit are >= 0 (in the result and all along), and no step of
\* either pass decreases a revenue accumulator.
C6_RevenueNonNegative ==
    /\ [](AllPricesNonNegative =>
            /\ RGe(direct_sale_revenue, Zero)
            /\ RGe(battery_sale_profit, Zero)
            /\ Returned => /\ RGe(result.direct_sale_revenue, Zero)
                           /\ RGe(result.battery_profit, Zero))
    /\ [][AllPricesNonNegative =>
            /\ RGe(direct_sale_revenue', direct_sale_revenue)
            /\ RGe(battery_sale_profit', battery_sale_profit)]_vars

\* C6 witness: no negative price, and both a direct sale and a battery sale
\* earned money.
C6_Witness ==
    /\ Returned
    /\ AllPricesNonNegative
    /\ RGt(result.direct_sale_revenue, Zero)
    /\ RGt(result.battery_profit, Zero)

\* C7: in the returned SoC trace entry 0 is 0 and entry i + 1 is the sum of
\* the Charge energies at intervals <= i minus the sum of the Discharge
\* energies at intervals <= i, whatever the order the discharges were
\* applied in.
C7_SocTraceChronological ==
    Returned =>
        /\ result.soc_history[1] = Zero
        /\ \A n \in Intervals :
            result.soc_history[n + 2] =
                RSub(EnergyUpTo(result.actions, Charge, n),
                     EnergyUpTo(result.actions, Discharge, n))

\* The candidate intervals as the claims define them: after the last
\* charge, hour >= MIN_SELL_HOUR, price > 0.
ClaimCandidates ==
    IF result.charge_intervals = <<>>
    THEN {}
    ELSE {n \in Intervals :
            /\ n > result.charge_intervals[Len(result.charge_intervals)]
            /\ n \div IntervalsPerHour >= MIN_SELL_HOUR
            /\ RGt(prices[n + 1], Zero)}

Discharged ==
    {result.battery_sale_intervals[a] :
        a \in 1 .. Len(result.battery_sale_intervals)}

\* u ranks before v: higher price, or the same price and earlier.
RanksBefore(u, v) ==
    \/ RGt(prices[u + 1], prices[v + 1])
    \/ prices[u + 1] = prices[v + 1] /\ u < v

\* C8: the discharged intervals are candidates; every discharged candidate
\* ranks before every candidate that was not discharged (higher price, or
\* equal price and earlier interval); and the Discharge actions are in the
\* action list in that rank order.
C8_PriceRankOrder ==
    Returned =>
        /\ Discharged \subseteq ClaimCandidates
        /\ \A u \in Discharged : \A v \in ClaimCandidates \ Discharged :
            RanksBefore(u, v)
        /\ \A k, m \in 1 .. Len(result.actions) :
            /\ k < m
            /\ result.actions[k].tip = Discharge
            /\ result.actions[m].tip = Discharge
            => RanksBefore(result.actions[k].interval,
                           result.actions[m].interval)

\* C8 witness: a tie between a discharged candidate and a later candidate
\* that was left unused, and two discharges at equal prices.
C8_Witness ==
    /\ Returned
    /\ \E u \in Discharged : \E v \in ClaimCandidates \ Discharged :
        prices[u + 1] = prices[v + 1]
    /\ \E u, w \in Discharged : u # w /\ prices[u + 1] = prices[w + 1]

\* C9: if final_soc > 0 on return, every candidate interval has exactly one
\* Discharge action, of POWER_MW * 0.25; and with a single candidate and a
\* battery holding more than POWER_MW * 0.25 there is exactly one Discharge,
\* at that candidate, of POWER_MW * 0.25, and the rest stays in final_soc.
C9_WalkStopsOnlyWhenDone ==
    Returned =>
        /\ RGt(result.final_soc, Zero) =>
            \A n \in ClaimCandidates :
                /\ Cardinality(ActionsAt(result.actions, Discharge, n)) = 1
                /\ \A k \in ActionsAt(result.actions, Discharge, n) :
                    result.actions[k].energija = RMul(POWER_MW, Quarter)
        /\ (/\ Cardinality(ClaimCandidates) = 1
            /\ RGt(soc, RMul(POWER_MW, Quarter)))
           => /\ \A k \in 1 .. Len(result.actions) :
                   result.actions[k].tip = Discharge =>
                       /\ result.actions[k].interval \in ClaimCandidates
                       /\ result.actions[k].energija =
                              RMul(POWER_MW, Quarter)
              /\ \A n \in ClaimCandidates :
                   Cardinality(ActionsAt(result.actions, Discharge, n)) = 1
              /\ result.final_soc = RSub(soc, RMul(POWER_MW, Quarter))

\* C9 witness: a single candidate, not the last interval, a battery holding
\* more than POWER_MW * 0.25, and energy left at the end.
C9_Witness ==
    /\ Returned
    /\ Cardinality(ClaimCandidates) = 1
    /\ NumIntervals - 1 \notin ClaimCandidates
    /\ RGt(soc, RMul(POWER_MW, Quarter))
    /\ RGt(result.final_soc, Zero)
    /\ HasDischarge

\* C10: in the forward pass (where soc_history[n] is still the SoC before
\* interval n), every interval with solar energy > 0 and SoC < capacity has
\* exactly one Charge action, of min(solar * ETA_CH, POWER_MW * 0.25,
\* capacity - SoC), whatever the prices; every interval with solar energy
\* > 0 and SoC = capacity has no Charge action and one DirectSale of the
\* whole solar energy at prices[n].
C10_ChargeFirst ==
    pc = "charge" =>
        \A n \in 0 .. (i - 1) :
            LET solar == solar_energy_15min[n + 1]
                before == soc_history[n + 1]
                ch == ActionsAt(actions, Charge, n)
                ds == ActionsAt(actions, DirectSale, n)
            IN  /\ (RGt(solar, Zero) /\ RLt(before, CAPACITY_MWH)) =>
                    /\ Cardinality(ch) = 1
                    /\ \A k \in ch :
                        actions[k].energija =
                            RMin3(RMul(solar, ETA_CH), RMul(POWER_MW, Quarter),
                                  RSub(CAPACITY_MWH, before))
                /\ (RGt(solar, Zero) /\ before = CAPACITY_MWH) =>
                    /\ ch = {}
                    /\ Cardinality(ds) = 1
                    /\ \A k \in ds :
                        /\ actions[k].energija = solar
                        /\ actions[k].cijena = prices[n + 1]

\* C10 witness: at the end of the forward pass, a charge that took the whole
\* solar energy of an interval at the day's highest price, and a later
\* interval sold directly because the battery was full.
C10_Witness ==
    /\ pc = "charge"
    /\ i = NumIntervals
    /\ \E n \in Intervals :
        /\ ActionsAt(actions, Charge, n) # {}
        /\ ActionsAt(actions, DirectSale, n) = {}
        /\ \A m \in Intervals : m # n => RLt(prices[m + 1], prices[n + 1])
    /\ \E m \in Intervals :
        /\ soc_history[m + 1] = CAPACITY_MWH
        /\ ActionsAt(actions, DirectSale, m) # {}

NoSun == \A h \in 1 .. Len(sunshine) : RLe(sunshine[h], Zero)

\* C11: when every sunshine value is <= 0, the result has total_produced
\* = 0, no action at all, total_revenue = 0, final_soc = 0 and an SoC trace
\* of zeros only (one per interval plus the start of the day), whatever the
\* prices.
C11_ZeroSun ==
    (Returned /\ NoSun) =>
        /\ result.total_produced = Zero
        /\ result.actions = <<>>
        /\ result.total_revenue = Zero
        /\ result.final_soc = Zero
        /\ result.soc_history = [n \in 1 .. (NumIntervals + 1) |-> Zero]

\* C11 witness: a returned day without sun, one of the sunshine values
\* negative, with a positive price at an hour where selling is allowed.
C11_Witness ==
    /\ Returned
    /\ NoSun
    /\ \E h \in 1 .. Len(sunshine) : RLt(sunshine[h], Zero)
    /\ \E n \in Intervals :
        /\ n \div IntervalsPerHour >= MIN_SELL_HOUR
        /\ RGt(prices[n + 1], Zero)

\* C12: every recorded action carries the SoC right after it at its
\* interval: a Charge or DirectSale at interval n the SoC after the charging
\* of interval n (the Charge energies at intervals <= n), a Discharge at
\* interval j the SoC at the end of the charging pass minus the Discharge
\* energies at intervals <= j, whatever the order the discharges were
\* applied in.
C12_ActionSocAfterAction ==
    Returned =>
        \A k \in 1 .. Len(result.actions) :
            LET a == result.actions[k]
            IN  /\ a.tip \in {Charge, DirectSale} =>
                    a.soc = EnergyUpTo(result.actions, Charge, a.interval)
                /\ a.tip = Discharge =>
                    a.soc = RSub(result.battery_charged,
                                 EnergyUpTo(result.actions, Discharge,
                                            a.interval))

\* C13: on return battery_charged is the sum of the Discharge energies plus
\* final_soc, final_soc is the last entry of the SoC trace, battery_sold is
\* ETA_DIS times the sum of the Discharge energies, and total_delivered is
\* at most total_produced.
C13_StoredEnergyBalance ==
    Returned =>
        LET discharged ==
                EnergyUpTo(result.actions, Discharge, NumIntervals - 1)
        IN  /\ result.battery_charged =
                 EnergyUpTo(result.actions, Charge, NumIntervals - 1)
            /\ result.battery_charged = RAdd(discharged, result.final_soc)
            /\ result.final_soc =
                 result.soc_history[Len(result.soc_history)]
            /\ result.battery_sold = RMul(ETA_DIS, discharged)
            /\ RLe(result.total_delivered, result.total_produced)

\* C13 witness: lossy charging and discharging, a discharge, and energy
\* left in the battery at the end of the day.
C13_Witness ==
    /\ Returned
    /\ RLt(ETA_CH, <<1, 1>>)
    /\ RLt(ETA_DIS, <<1, 1>>)
    /\ HasDischarge
    /\ RGt(result.final_soc, Zero)
    /\ RGt(result.direct_sale_energy, Zero)
====
